---- MODULE Spec2Model ----
(***************************************************************************)
(* Model of the guitar tablature solver (backend/app/services/tab_solver.py *)
(* and backend/app/models/guitar.py), of the note filter of the pitch       *)
(* detector (pitch_detector.py), of the alphaTex and Guitar Pro emitters    *)
(* (alphatex_builder.py, guitarpro_builder.py) and of the transcription     *)
(* service with its uploaded file (transcription.py, audio_processor.py).   *)
(*                                                                          *)
(* Times are integer milliseconds (the code holds seconds as floats).       *)
(* Velocities are integer percent.  Costs are the code's floats held as     *)
(* exact rationals: every cost below is the code's cost times 72000         *)
(* (= 20 * 60 * 60): the weights are held times 20 and a mean fret is held  *)
(* times 60, so that every mean over 1..6 frets and every squared jump is   *)
(* an integer.  Float addition is monotone, and no two distinct costs of    *)
(* the cases checked here are closer than 0.05, so the comparisons the code *)
(* makes have the outcome computed here.  A mean over 7 frets is rounded    *)
(* down to a multiple of 1/60; the 7-note chords of the model are solved    *)
(* alone and have one assignment, so no comparison reads that cost.         *)
(* A zone cost is a sum of floats: where the enumeration of one chord is    *)
(* checked for every target fret, chords of three notes or more take the    *)
(* target frets whose costs are floats of no rounding.                      *)
(* The detector's inputs keep every gap between two notes off the merge     *)
(* tolerances, where the float difference of two times decides the          *)
(* comparison; ToTick takes one tick off at the times where the float       *)
(* product of seconds and ticks per second falls short of the exact one.    *)
(***************************************************************************)
EXTENDS Integers, Sequences, FiniteSets, TLC

VARIABLES notes, target_fret, pc, chords, all_assignments, dp, back, path, result,
          \* TabSolver.__init__: self.max_combos and self.max_fret_span
          self_max_combos, self_max_fret_span,
          \* PitchDetector.detect: its parameters and the lists of its steps
          note_events, min_velocity, merge_tolerance_ms, in_range, kept, merged, detected,
          \* the emitters: AlphaTexBuilder.build and GuitarProBuilder.build
          tex_beats, tex, gp5,
          \* TranscriptionService.transcribe: the request, its file, its outcome
          upload, temp_file, response

config_vars == <<self_max_combos, self_max_fret_span>>

detector_vars ==
    <<note_events, min_velocity, merge_tolerance_ms, in_range, kept, merged, detected>>

emitter_vars == <<tex_beats, tex, gp5>>

service_vars == <<upload, temp_file, response>>

vars == <<notes, target_fret, pc, chords, all_assignments, dp, back, path, result,
          config_vars, detector_vars, emitter_vars, service_vars>>

(***************************************************************************)
(* Bounds of the model                                                     *)
(***************************************************************************)
MaxNotes == 3

(***************************************************************************)
(* Program constants                                                       *)
(***************************************************************************)
\* guitar.py: STANDARD_TUNING, string number -> MIDI pitch of the open string
STANDARD_TUNING == <<64, 59, 55, 50, 45, 40>>

GUITAR_MIN_MIDI == 40
GUITAR_MAX_MIDI == 88

NUM_STRINGS == 6
MAX_FRET == 24

\* config.py chord_window_ms = 50.0; TabSolver.__init__ divides by 1000 (seconds)
chord_window == 50
max_fret_span == 5
max_combos == 50

\* the weights, times 20
position_jump_weight == 30    \* 1.5
stretch_weight == 16          \* 0.8
high_fret_weight == 3         \* 0.15
zone_weight == 40             \* 2.0
open_zone_weight == 6         \* 0.3

(***************************************************************************)
(* Sequence helpers                                                        *)
(***************************************************************************)
Abs(x) == IF x < 0 THEN -x ELSE x

\* the sequence f as an explicit tuple of its values
List(f) == f \o <<>>

Take(s, n) == SubSeq(s, 1, IF n < Len(s) THEN n ELSE Len(s))

RECURSIVE SumSeq(_)
SumSeq(s) == IF s = <<>> THEN 0 ELSE Head(s) + SumSeq(Tail(s))

MaxSeq(s) == CHOOSE x \in {s[i] : i \in 1..Len(s)} : \A j \in 1..Len(s) : s[j] <= x

MinSeq(s) == CHOOSE x \in {s[i] : i \in 1..Len(s)} : \A j \in 1..Len(s) : x <= s[j]

\* Python's sorted()/list.sort(): a stable sort of s by the integer keys k
\* (k[i] is the key of s[i]).  s[i] lands after the elements of smaller key and
\* the earlier elements of equal key.
StableSort(s, k) ==
    LET n == Len(s)
        keys == List(k)
        rank == List([i \in 1..n |->
                    1 + Cardinality({j \in 1..n : keys[j] < keys[i]
                                                  \/ (keys[j] = keys[i] /\ j < i)})])
    IN  List([r \in 1..n |-> s[CHOOSE i \in 1..n : rank[i] = r]])

(***************************************************************************)
(* guitar.py                                                               *)
(***************************************************************************)
\* candidates_for_pitch with the fret counted from 1 (an off-by-one)
candidates_for_pitch_off_by_one(midi_pitch) ==
    LET all == [s \in 1..NUM_STRINGS |-> <<s, midi_pitch - STANDARD_TUNING[s] + 1>>]
        ok(sf) == 0 <= sf[2] /\ sf[2] <= MAX_FRET
    IN  SelectSeq(all, ok)

\* candidates_for_pitch with fret < MAX_FRET in place of fret <= MAX_FRET
candidates_for_pitch_below_max_fret(midi_pitch) ==
    LET all == [s \in 1..NUM_STRINGS |-> <<s, midi_pitch - STANDARD_TUNING[s]>>]
        ok(sf) == 0 <= sf[2] /\ sf[2] < MAX_FRET
    IN  SelectSeq(all, ok)

\* candidates_for_pitch: the (string, fret) pairs of a pitch, in the order of
\* the tuning table (strings 1..6)
candidates_for_pitch(midi_pitch) ==
    LET all == [s \in 1..NUM_STRINGS |-> <<s, midi_pitch - STANDARD_TUNING[s]>>]
        ok(sf) == 0 <= sf[2] /\ sf[2] <= MAX_FRET
    IN  SelectSeq(all, ok)

(***************************************************************************)
(* tab_solver.py: chord grouping                                           *)
(***************************************************************************)
\* the loop of _group_chords: rest is what is left of sorted_notes
\* the loop with the window taken from the note before instead of current[0]
RECURSIVE GroupScan_from_previous(_, _, _)
GroupScan_from_previous(rest, current, groups) ==
    IF rest = <<>>
    THEN Append(groups, [start_time |-> current[1].start_time, notes |-> current])
    ELSE LET note == Head(rest)
         IN  IF note.start_time - current[Len(current)].start_time <= chord_window
             THEN GroupScan_from_previous(Tail(rest), Append(current, note), groups)
             ELSE GroupScan_from_previous(Tail(rest), <<note>>,
                            Append(groups, [start_time |-> current[1].start_time,
                                            notes |-> current]))

RECURSIVE GroupScan(_, _, _)
GroupScan(rest, current, groups) ==
    IF rest = <<>>
    THEN Append(groups, [start_time |-> current[1].start_time, notes |-> current])
    ELSE LET note == Head(rest)
         IN  IF note.start_time - current[1].start_time <= chord_window
             THEN GroupScan(Tail(rest), Append(current, note), groups)
             ELSE GroupScan(Tail(rest), <<note>>,
                            Append(groups, [start_time |-> current[1].start_time,
                                            notes |-> current]))

group_chords(ns) ==
    LET sorted_notes == StableSort(ns, [i \in 1..Len(ns) |-> ns[i].start_time])
    IN  GroupScan(Tail(sorted_notes), <<sorted_notes[1]>>, <<>>)

(***************************************************************************)
(* tab_solver.py: cost model.  target is self.target_fret: <<>> for None,  *)
(* <<t>> for the fret t.                                                   *)
(***************************************************************************)
Frets(assignment) == List([i \in 1..Len(assignment) |-> assignment[i][2]])

IsFretted(f) == f > 0

Fretted(assignment) == SelectSeq(Frets(assignment), IsFretted)

\* _internal_cost, times 72000: stretch * stretch_weight + avg_fret * high_fret_weight
internal_cost(assignment) ==
    LET fretted == Fretted(assignment)
    IN  IF fretted = <<>> THEN 0
        ELSE LET stretch == MaxSeq(fretted) - MinSeq(fretted)
                 avg_fret60 == (60 * SumSeq(Frets(assignment))) \div Len(assignment)
             IN  stretch * stretch_weight * 3600 + avg_fret60 * high_fret_weight * 60

RECURSIVE ZoneSum(_, _)
ZoneSum(t, frets) ==
    IF frets = <<>> THEN 0
    ELSE (IF Head(frets) > 0
          THEN Abs(Head(frets) - t) * zone_weight * 3600
          ELSE t * open_zone_weight * 3600) + ZoneSum(t, Tail(frets))

\* _zone_cost with the target fret ignored
zone_cost_none(target, assignment) == 0

\* _zone_cost, times 72000
zone_cost(target, assignment) ==
    IF target = <<>> THEN 0 ELSE ZoneSum(target[1], Frets(assignment))

\* _fret_position, times 60: the mean fret of the fretted notes, 0 if all open
fret_position(assignment) ==
    LET fretted == Fretted(assignment)
    IN  IF fretted = <<>> THEN 0 ELSE (60 * SumSeq(fretted)) \div Len(fretted)

\* _transition_cost, times 72000: (jump ** 2) * position_jump_weight
transition_cost(prev, curr) ==
    LET jump == Abs(fret_position(curr) - fret_position(prev))
    IN  (jump * jump) * position_jump_weight

(***************************************************************************)
(* tab_solver.py: candidate enumeration and the fallback                   *)
(***************************************************************************)
\* itertools.product(*lists): the tuples in lexicographic order
RECURSIVE Product(_)
Product(lists) ==
    IF lists = <<>> THEN << <<>> >>
    ELSE LET head == Head(lists)
             rest == Product(Tail(lists))
             m == Len(rest)
         IN  List([t \in 1..(Len(head) * m) |->
                      <<head[((t - 1) \div m) + 1]>> \o rest[((t - 1) % m) + 1]])

NoDuplicateStrings(combo) ==
    Cardinality({combo[i][1] : i \in 1..Len(combo)}) = Len(combo)

SpanOk(combo) ==
    LET fretted == Fretted(combo)
    IN  fretted = <<>> \/ MaxSeq(fretted) - MinSeq(fretted) <= max_fret_span

ValidCombo(combo) == NoDuplicateStrings(combo) /\ SpanOk(combo)

\* the loop over product(...) of _generate_assignments: each accepted combo is
\* appended, and the loop breaks once len(valid) >= max_combos, so valid is
\* the first max_combos accepted combos
EnumScan(combos) == Take(SelectSeq(combos, ValidCombo), max_combos)

generate_assignments(target, chord) ==
    LET per_note_candidates ==
            List([i \in 1..Len(chord.notes) |->
                     candidates_for_pitch(chord.notes[i].midi_pitch)])
    IN  IF \E i \in 1..Len(chord.notes) : per_note_candidates[i] = <<>>
        THEN <<>>
        ELSE LET valid == EnumScan(Product(per_note_candidates))
             IN  IF target # <<>>
                 THEN StableSort(valid,
                                 [i \in 1..Len(valid) |-> zone_cost(target, valid[i])])
                 ELSE valid

\* the two checks of the loop for a solver whose max_fret_span is span
ValidComboFor(span, combo) ==
    /\ NoDuplicateStrings(combo)
    /\ LET fretted == Fretted(combo)
       IN  fretted = <<>> \/ MaxSeq(fretted) - MinSeq(fretted) <= span

\* the loop with the cut made on the tuples of the product, before the checks
EnumScanFor_cut_product(cap, span, combos) ==
    LET ok(combo) == ValidComboFor(span, combo)
    IN  SelectSeq(Take(combos, IF cap < 1 THEN 1 ELSE cap), ok)

\* the loop over product(...) for a solver whose max_combos is cap: a combo is
\* appended first and len(valid) >= self.max_combos tested after, so the loop
\* ends with the first cap accepted combos, and with one if cap < 1
EnumScanFor(cap, span, combos) ==
    LET ok(combo) == ValidComboFor(span, combo)
    IN  Take(SelectSeq(combos, ok), IF cap < 1 THEN 1 ELSE cap)

\* _generate_assignments with the sort by zone cost made on every valid combo
\* and the cut to max_combos made after it
generate_assignments_for_sort_first(cap, span, target, chord) ==
    LET per_note_candidates ==
            List([i \in 1..Len(chord.notes) |->
                     candidates_for_pitch(chord.notes[i].midi_pitch)])
    IN  IF \E i \in 1..Len(chord.notes) : per_note_candidates[i] = <<>>
        THEN <<>>
        ELSE LET ok(combo) == ValidComboFor(span, combo)
                 valid == SelectSeq(Product(per_note_candidates), ok)
             IN  IF target # <<>>
                 THEN Take(StableSort(valid,
                                      [i \in 1..Len(valid) |-> zone_cost(target, valid[i])]),
                           IF cap < 1 THEN 1 ELSE cap)
                 ELSE Take(valid, IF cap < 1 THEN 1 ELSE cap)

\* _generate_assignments of a solver with max_combos = cap and
\* max_fret_span = span
generate_assignments_for(cap, span, target, chord) ==
    LET per_note_candidates ==
            List([i \in 1..Len(chord.notes) |->
                     candidates_for_pitch(chord.notes[i].midi_pitch)])
    IN  IF \E i \in 1..Len(chord.notes) : per_note_candidates[i] = <<>>
        THEN <<>>
        ELSE LET valid == EnumScanFor(cap, span, Product(per_note_candidates))
             IN  IF target # <<>>
                 THEN StableSort(valid,
                                 [i \in 1..Len(valid) |-> zone_cost(target, valid[i])])
                 ELSE valid

\* candidates.sort(...) with the target fret left out: always by fret
FallbackOrder_by_fret(target, candidates) ==
    StableSort(candidates, [i \in 1..Len(candidates) |-> candidates[i][2]])

\* candidates.sort(...) of _fallback_assignment
FallbackOrder(target, candidates) ==
    IF target # <<>>
    THEN StableSort(candidates,
                    [i \in 1..Len(candidates) |-> Abs(candidates[i][2] - target[1])])
    ELSE StableSort(candidates, [i \in 1..Len(candidates) |-> candidates[i][2]])

\* best = (1, max(0, note.midi_pitch - 64))
ForcedPosition(midi_pitch) ==
    <<1, IF midi_pitch - 64 > 0 THEN midi_pitch - 64 ELSE 0>>

\* the body of the loop over chord.notes of _fallback_assignment
FallbackBest(target, note, used_strings) ==
    LET candidates == FallbackOrder(target, candidates_for_pitch(note.midi_pitch))
        free(sf) == sf[1] \notin used_strings
        avail == SelectSeq(candidates, free)
    IN  IF avail # <<>> THEN Head(avail) ELSE ForcedPosition(note.midi_pitch)

RECURSIVE FallbackScan(_, _, _, _)
FallbackScan(target, rest, used_strings, assignment) ==
    IF rest = <<>> THEN assignment
    ELSE LET note == Head(rest)
             candidates == candidates_for_pitch(note.midi_pitch)
             free(sf) == sf[1] \notin used_strings
             found == SelectSeq(candidates, free) # <<>>
             best == FallbackBest(target, note, used_strings)
         IN  FallbackScan(target, Tail(rest),
                          IF found THEN used_strings \cup {best[1]} ELSE used_strings,
                          Append(assignment, best))

fallback_assignment(target, chord) == FallbackScan(target, chord.notes, {}, <<>>)

\* Step 2 of solve without the fallback
ChordAssignments_no_fallback(target, chord) == generate_assignments(target, chord)

\* Step 2 of solve for one chord
ChordAssignments(target, chord) ==
    LET assignments == generate_assignments(target, chord)
    IN  IF assignments = <<>> THEN <<fallback_assignment(target, chord)>> ELSE assignments

(***************************************************************************)
(* tab_solver.py: the Viterbi table.  A cost cell is <<>> for INF and <<c>> *)
(* for the cost c; back and path hold Python's 0-based indices, -1 for the  *)
(* initial value of back.                                                   *)
(***************************************************************************)
\* Python's s[i] for a 0-based, possibly negative, index
PyInRange(s, i) == -Len(s) <= i /\ i < Len(s)

PyAt(s, i) == IF i >= 0 THEN s[i + 1] ELSE s[Len(s) + i + 1]

\* total < dp[i][j] on floats with INF
CostLess(a, b) == a # <<>> /\ (b = <<>> \/ a[1] < b[1])

CostAdd(a, x) == IF a = <<>> THEN <<>> ELSE <<a[1] + x>>

\* the first 0-based index of a least cost of row, -1 if every cost is INF
FirstLeast(row) ==
    LET finite == {row[k][1] : k \in {i \in 1..Len(row) : row[i] # <<>>}}
    IN  IF finite = {} THEN -1
        ELSE LET least == CHOOSE c \in finite : \A d \in finite : c <= d
             IN  (CHOOSE j \in 1..Len(row) :
                      /\ row[j] = <<least>>
                      /\ \A k \in 1..(j - 1) : row[k] # <<least>>) - 1

\* the loop over k taking the previous assignment of the least transition,
\* whatever its own cost so far
CellScan_greedy(target, prev_costs, prev_assigns, curr_assign) ==
    LET jumps == List([k \in 1..Len(prev_assigns) |->
                     <<transition_cost(prev_assigns[k], curr_assign)>>])
        k0 == FirstLeast(jumps)
    IN  IF k0 = -1 THEN [cost |-> <<>>, back |-> -1]
        ELSE [cost |-> CostAdd(prev_costs[k0 + 1],
                               jumps[k0 + 1][1] + internal_cost(curr_assign)
                                   + zone_cost(target, curr_assign)),
              back |-> k0]

\* the loop over k of solve for one cell (i, j): dp[i][j] starts at INF with
\* back -1 and takes total and k whenever total < dp[i][j], so it ends with the
\* least total and the first k that gives it
CellScan(target, prev_costs, prev_assigns, curr_assign) ==
    LET curr_internal == internal_cost(curr_assign)
        curr_zone == zone_cost(target, curr_assign)
        totals == List([k \in 1..Len(prev_assigns) |->
                      CostAdd(prev_costs[k],
                              transition_cost(prev_assigns[k], curr_assign)
                                  + curr_internal + curr_zone)])
        k0 == FirstLeast(totals)
    IN  IF k0 = -1 THEN [cost |-> <<>>, back |-> -1]
        ELSE [cost |-> totals[k0 + 1], back |-> k0]

\* dp[0][j] = internal + zone
FirstRow(target, assigns) ==
    List([j \in 1..Len(assigns) |->
        [cost |-> <<internal_cost(assigns[j]) + zone_cost(target, assigns[j])>>,
         back |-> -1]])

NextRow(target, prev_row, prev_assigns, assigns) ==
    LET prev_costs == List([k \in 1..Len(prev_row) |-> prev_row[k].cost])
    IN  List([j \in 1..Len(assigns) |->
                 CellScan(target, prev_costs, prev_assigns, assigns[j])])

\* Step 3 of solve: the rows 1..n of the table, each row a sequence of [cost, back]
RECURSIVE ViterbiRows(_, _, _)
ViterbiRows(target, assigns, rows) ==
    IF Len(rows) = Len(assigns) THEN rows
    ELSE LET i == Len(rows) + 1
         IN  ViterbiRows(target, assigns,
                 Append(rows,
                        IF i = 1 THEN FirstRow(target, assigns[1])
                        ELSE NextRow(target, rows[i - 1], assigns[i - 1], assigns[i])))

ViterbiTable(target, assigns) == ViterbiRows(target, assigns, <<>>)

\* dp and back of solve, read off the table
TableCosts(table) ==
    List([i \in 1..Len(table) |-> List([j \in 1..Len(table[i]) |-> table[i][j].cost])])

TableBacks(table) ==
    List([i \in 1..Len(table) |-> List([j \in 1..Len(table[i]) |-> table[i][j].back])])

\* best_last left at the first assignment of the last chord
BestLast_first(last_row) == 0

\* max() in place of min(): the first index of a greatest cost
BestLast_greatest(last_row) ==
    (CHOOSE j \in 1..Len(last_row) :
         /\ \A k \in 1..Len(last_row) : ~CostLess(last_row[j], last_row[k])
         /\ \A k \in 1..(j - 1) : CostLess(last_row[k], last_row[j])) - 1

\* min(range(len(dp[-1])), key=lambda j: dp[-1][j]): first index of a least cost
BestLast(last_row) ==
    IF \A k \in 1..Len(last_row) : last_row[k] = <<>> THEN 0 ELSE FirstLeast(last_row)

\* Step 4 of solve: path[i] = back[i + 1][path[i + 1]], from the last chord down;
\* tail is path[i+1..n] (chords numbered 1..n here); <<>> stands for an
\* IndexError on the way
RECURSIVE BacktrackScan(_, _, _)
BacktrackScan(back_table, i, tail) ==
    IF i = 0 THEN tail
    ELSE IF ~PyInRange(back_table[i + 1], Head(tail)) THEN <<>>
         ELSE BacktrackScan(back_table, i - 1,
                            <<PyAt(back_table[i + 1], Head(tail))>> \o tail)

\* TabNotesOf stamping every note with the onset of its chord
TabNotesOf_chord_onset(chord, assignment) ==
    LET n == IF Len(assignment) < Len(chord.notes) THEN Len(assignment) ELSE Len(chord.notes)
    IN  [k \in 1..n |->
            [start_time |-> chord.start_time,
             end_time   |-> chord.notes[k].end_time,
             midi_pitch |-> chord.notes[k].midi_pitch,
             velocity   |-> chord.notes[k].velocity,
             string     |-> assignment[k][1],
             fret       |-> assignment[k][2]]]

\* zip(chord.notes, assignment) of Step 5, for one chord
TabNotesOf(chord, assignment) ==
    LET n == IF Len(assignment) < Len(chord.notes) THEN Len(assignment) ELSE Len(chord.notes)
    IN  [k \in 1..n |->
            [start_time |-> chord.notes[k].start_time,
             end_time   |-> chord.notes[k].end_time,
             midi_pitch |-> chord.notes[k].midi_pitch,
             velocity   |-> chord.notes[k].velocity,
             string     |-> assignment[k][1],
             fret       |-> assignment[k][2]]]

RECURSIVE BuildScan(_, _, _, _)
BuildScan(cs, assigns, p, i) ==
    IF i > Len(cs) THEN <<>>
    ELSE TabNotesOf(cs[i], PyAt(assigns[i], p[i])) \o BuildScan(cs, assigns, p, i + 1)

\* the final sort by start_time alone
SortResult_by_start(tab_notes) ==
    StableSort(tab_notes, [i \in 1..Len(tab_notes) |-> tab_notes[i].start_time])

\* result.sort(key=lambda n: (n.start_time, n.string)); string is in 1..6 for
\* every position the solver makes, so the pair is ordered as
\* start_time * (NUM_STRINGS + 1) + string
SortResult(tab_notes) ==
    StableSort(tab_notes,
               [i \in 1..Len(tab_notes) |->
                   tab_notes[i].start_time * (NUM_STRINGS + 1) + tab_notes[i].string])

(***************************************************************************)
(* The inputs of solve                                                     *)
(***************************************************************************)
NoteEvent(start, dur, pitch, vel) ==
    [start_time |-> start, end_time |-> start + dur, midi_pitch |-> pitch, velocity |-> vel]

\* (onset ms, pitch).  Onsets: 0 and 50 are exactly chord_window apart, 50 and
\* 60 are in one window but 0 and 60 are not, 120 is apart from all.  Pitches:
\* 40 has one candidate, 64 six, 69 five, 100 none.
Onsets == {<<0, 40>>, <<0, 64>>, <<0, 100>>, <<50, 69>>,
           <<60, 64>>, <<60, 69>>, <<120, 64>>, <<120, 100>>}

\* every pitch has its own length (ms) and every onset its own velocity (percent)
Notes == {NoteEvent(on[1], 100 + on[2], on[2], 50 + (on[1] \div 4)) : on \in Onsets}

Targets == {<<>>, <<5>>}

\* chords of NUM_STRINGS + 1 notes: 40 has one candidate and 45 has two
BigChords ==
    [1..(NUM_STRINGS + 1) -> {NoteEvent(0, 500, 40, 80), NoteEvent(0, 500, 45, 80)}]

RECURSIVE SeqsUpTo(_, _)
SeqsUpTo(S, n) ==
    IF n = 0 THEN {<<>>}
    ELSE LET shorter == SeqsUpTo(S, n - 1)
         IN  shorter \cup {Append(s, x) : s \in {t \in shorter : Len(t) = n - 1}, x \in S}

\* TabSolver() or TabSolver(target_fret=...): the defaults of __init__
DefaultSolver ==
    /\ self_max_combos = max_combos
    /\ self_max_fret_span = max_fret_span

Idle ==
    /\ pc = "start"
    /\ DefaultSolver
    /\ chords = <<>>
    /\ all_assignments = <<>>
    /\ dp = <<>>
    /\ back = <<>>
    /\ path = <<>>
    /\ result = <<>>

\* detect not called
IdleDetector ==
    /\ note_events = <<>>
    /\ min_velocity = 40
    /\ merge_tolerance_ms = 30
    /\ in_range = <<>>
    /\ kept = <<>>
    /\ merged = <<>>
    /\ detected = <<>>

\* no emitter called
IdleEmitters ==
    /\ tex_beats = <<>>
    /\ tex = <<>>
    /\ gp5 = <<>>

\* no request: solve called on its own
IdleService ==
    /\ upload = <<>>
    /\ temp_file = "none"
    /\ response = "none"

\* TabSolver(target_fret=...) constructed, solve(notes) called
Init ==
    /\ notes \in SeqsUpTo(Notes, MaxNotes) \cup BigChords
    /\ target_fret \in Targets
    /\ Idle
    /\ IdleDetector
    /\ IdleEmitters
    /\ IdleService

\* one note alone: every MIDI pitch, every target fret and none
InitSingle ==
    /\ notes \in {<<NoteEvent(0, 500, p, 80)>> : p \in 0..127}
    /\ target_fret \in {<<>>} \cup {<<t>> : t \in 0..MAX_FRET}
    /\ Idle
    /\ IdleDetector
    /\ IdleEmitters
    /\ IdleService

\* three single notes p, q, p of the guitar range, 500 ms apart, no target fret
InitSticky ==
    /\ notes \in {<<NoteEvent(0, 500, p, 80), NoteEvent(500, 500, q, 80),
                   NoteEvent(1000, 500, p, 80)>> :
                     p \in GUITAR_MIN_MIDI..GUITAR_MAX_MIDI,
                     q \in GUITAR_MIN_MIDI..GUITAR_MAX_MIDI}
    /\ target_fret = <<>>
    /\ Idle
    /\ IdleDetector
    /\ IdleEmitters
    /\ IdleService

(***************************************************************************)
(* solve, step by step                                                     *)
(***************************************************************************)
\* lines 61-65: the empty input returns [], otherwise Step 1
SolveStart ==
    /\ pc = "start"
    /\ IF notes = <<>>
       THEN /\ pc' = "done"
            /\ chords' = chords
       ELSE /\ pc' = "assign"
            /\ chords' = group_chords(notes)
    /\ UNCHANGED <<notes, target_fret, all_assignments, dp, back, path, result,
                 config_vars, detector_vars, emitter_vars, service_vars>>

\* Step 2: the assignments of every chord
GenerateAll ==
    /\ pc = "assign"
    /\ all_assignments' =
           [i \in 1..Len(chords) |-> ChordAssignments(target_fret, chords[i])]
    /\ pc' = "viterbi"
    /\ UNCHANGED <<notes, target_fret, chords, dp, back, path, result,
                 config_vars, detector_vars, emitter_vars, service_vars>>

\* Step 3: the DP table
Viterbi ==
    /\ pc = "viterbi"
    /\ dp' = TableCosts(ViterbiTable(target_fret, all_assignments))
    /\ back' = TableBacks(ViterbiTable(target_fret, all_assignments))
    /\ pc' = "backtrack"
    /\ UNCHANGED <<notes, target_fret, chords, all_assignments, path, result,
                 config_vars, detector_vars, emitter_vars, service_vars>>

\* Step 4: min() of an empty row raises ValueError, a back pointer out of its
\* row raises IndexError
Backtrack ==
    /\ pc = "backtrack"
    /\ LET n == Len(chords)
           p == IF dp[n] = <<>> THEN <<>>
                ELSE BacktrackScan(back, n - 1, <<BestLast(dp[n])>>)
       IN  IF p = <<>>
           THEN /\ pc' = "raised"
                /\ path' = path
           ELSE /\ pc' = "build"
                /\ path' = p
    /\ UNCHANGED <<notes, target_fret, chords, all_assignments, dp, back, result,
                 config_vars, detector_vars, emitter_vars, service_vars>>

\* Step 5 and the final sort
BuildResult ==
    /\ pc = "build"
    /\ IF \E i \in 1..Len(chords) : ~PyInRange(all_assignments[i], path[i])
       THEN /\ pc' = "raised"
            /\ result' = result
       ELSE /\ pc' = "done"
            /\ result' = SortResult(BuildScan(chords, all_assignments, path, 1))
    /\ UNCHANGED <<notes, target_fret, chords, all_assignments, dp, back, path,
                 config_vars, detector_vars, emitter_vars, service_vars>>

Next == SolveStart \/ GenerateAll \/ Viterbi \/ Backtrack \/ BuildResult

\* solve(ns) of a solver with the defaults and the target fret target, as one
\* value: Steps 1 to 5 and the final sort
solve(target, ns) ==
    IF ns = <<>> THEN <<>>
    ELSE LET groups == group_chords(ns)
             assigns == List([i \in 1..Len(groups) |-> ChordAssignments(target, groups[i])])
             table == ViterbiTable(target, assigns)
             p == BacktrackScan(TableBacks(table), Len(groups) - 1,
                                <<BestLast(TableCosts(table)[Len(groups)])>>)
         IN  SortResult(BuildScan(groups, assigns, p, 1))

Spec == Init /\ [][Next]_vars

SpecSingle == InitSingle /\ [][Next]_vars

SpecSticky == InitSticky /\ [][Next]_vars

\* the other note of the chords of InitFallback: 40 and 41 have string 6 alone,
\* 100 has no string
FallbackPartners == {40, 41, 100}

\* two notes at once, every pitch of the guitar range beside a note that has
\* one candidate or none, in either order; every target fret and none
InitFallback ==
    /\ notes \in {<<NoteEvent(0, 500, p, 80), NoteEvent(0, 500, q, 80)>> :
                     p \in GUITAR_MIN_MIDI..GUITAR_MAX_MIDI, q \in FallbackPartners}
               \cup {<<NoteEvent(0, 500, q, 80), NoteEvent(0, 500, p, 80)>> :
                     p \in GUITAR_MIN_MIDI..GUITAR_MAX_MIDI, q \in FallbackPartners}
    /\ target_fret \in {<<>>} \cup {<<t>> : t \in 0..MAX_FRET}
    /\ Idle
    /\ IdleDetector
    /\ IdleEmitters
    /\ IdleService

SpecFallback == InitFallback /\ [][Next]_vars

(***************************************************************************)
(* _generate_assignments called on one chord by a solver of any            *)
(* max_combos, max_fret_span and target_fret                               *)
(***************************************************************************)
MaxChord == 3

\* 40 has one candidate, 59 five, 64 six, 100 none
ChordPitches == {40, 59, 64, 100}

\* the chords of up to MaxChord notes at one onset
ChordInputs ==
    {c \in SeqsUpTo({NoteEvent(0, 500, p, 80) : p \in ChordPitches}, MaxChord) : c # <<>>}

\* max_combos: caps under the number of valid combos of a chord, and the default
CapInputs == {1, 3, max_combos}

\* max_fret_span: the default and a narrower hand
SpanInputs == {3, max_fret_span}

\* no target fret and every target fret of the fretboard
TargetInputs == {<<>>} \cup {<<t>> : t \in 0..MAX_FRET}

\* _zone_cost adds floats: the cost target_fret * 0.3 of an open string is a
\* float of no rounding for the target frets 0, 5, 10, 15 and 20 alone, and
\* with another target fret the sum of three costs or more depends on the
\* order of the notes.  Chords of three notes or more take these target frets.
ExactTargetInputs == {<<>>} \cup {<<5 * t>> : t \in 0..4}

InitEnum ==
    /\ pc = "enumerate"
    /\ notes \in ChordInputs
    /\ chords = <<[start_time |-> 0, notes |-> notes]>>
    /\ target_fret \in (IF Len(notes) <= 2 THEN TargetInputs ELSE ExactTargetInputs)
    /\ self_max_combos \in CapInputs
    /\ self_max_fret_span \in SpanInputs
    /\ all_assignments = <<>> /\ dp = <<>> /\ back = <<>>
    /\ path = <<>> /\ result = <<>>
    /\ IdleDetector
    /\ IdleEmitters
    /\ IdleService

\* assignments = self._generate_assignments(chord)
Enumerate ==
    /\ pc = "enumerate"
    /\ all_assignments' = <<generate_assignments_for(self_max_combos, self_max_fret_span,
                                                     target_fret, chords[1])>>
    /\ pc' = "enumerated"
    /\ UNCHANGED <<notes, target_fret, chords, dp, back, path, result,
                 config_vars, detector_vars, emitter_vars, service_vars>>

SpecEnum == InitEnum /\ [][Enumerate]_vars

(***************************************************************************)
(* pitch_detector.py: the note filter of PitchDetector.detect.  The notes   *)
(* predict() returns are an input: note_events holds them with the pitch    *)
(* already int(pitch) and the velocity not yet clipped.                     *)
(***************************************************************************)
\* sorted(notes, key=lambda n: (n.midi_pitch, n.start_time)): the stable sort
\* by the pair is the stable sort by start_time followed by the stable sort
\* by midi_pitch
SortByPitchStart(ns) ==
    LET by_start == StableSort(ns, [i \in 1..Len(ns) |-> ns[i].start_time])
    IN  StableSort(by_start, [i \in 1..Len(by_start) |-> by_start[i].midi_pitch])

\* notes.sort(key=lambda n: (n.start_time, n.midi_pitch))
SortByStartPitch(ns) ==
    LET by_pitch == StableSort(ns, [i \in 1..Len(ns) |-> ns[i].midi_pitch])
    IN  StableSort(by_pitch, [i \in 1..Len(by_pitch) |-> by_pitch[i].start_time])

\* NoteEvent.duration
Duration(n) == n.end_time - n.start_time

Max2(a, b) == IF a >= b THEN a ELSE b

\* np.clip(velocity, 0.0, 1.0), in percent
ClipVelocity(velocity) ==
    IF velocity < 0 THEN 0 ELSE IF velocity > 100 THEN 100 ELSE velocity

\* the loop of detect: the velocity is clipped, then the notes outside the
\* guitar range and the notes quieter than _min_vel are dropped
RangeVelocityFilter(events, min_vel) ==
    LET clipped == List([i \in 1..Len(events) |->
                           [events[i] EXCEPT !.velocity = ClipVelocity(@)]])
        keep(n) == /\ ~(n.midi_pitch < GUITAR_MIN_MIDI \/ n.midi_pitch > GUITAR_MAX_MIDI)
                   /\ ~(n.velocity < min_vel)
    IN  SelectSeq(clipped, keep)

\* the scan of _deduplicate with >= for >: the later note wins a tie
RECURSIVE DedupScan_later_on_tie(_, _)
DedupScan_later_on_tie(rest, kept_so_far) ==
    IF rest = <<>> THEN kept_so_far
    ELSE LET note == Head(rest)
             prev == kept_so_far[Len(kept_so_far)]
         IN  IF note.midi_pitch = prev.midi_pitch /\ note.start_time < prev.end_time
             THEN IF Duration(note) >= Duration(prev)
                  THEN DedupScan_later_on_tie(Tail(rest),
                           [kept_so_far EXCEPT ![Len(kept_so_far)] = note])
                  ELSE DedupScan_later_on_tie(Tail(rest), kept_so_far)
             ELSE DedupScan_later_on_tie(Tail(rest), Append(kept_so_far, note))

\* the scan of _deduplicate: rest is what is left of sorted_notes[1:]
RECURSIVE DedupScan(_, _)
DedupScan(rest, kept_so_far) ==
    IF rest = <<>> THEN kept_so_far
    ELSE LET note == Head(rest)
             prev == kept_so_far[Len(kept_so_far)]
         IN  IF note.midi_pitch = prev.midi_pitch /\ note.start_time < prev.end_time
             THEN IF Duration(note) > Duration(prev)
                  THEN DedupScan(Tail(rest),
                           [kept_so_far EXCEPT ![Len(kept_so_far)] = note])
                  ELSE DedupScan(Tail(rest), kept_so_far)
             ELSE DedupScan(Tail(rest), Append(kept_so_far, note))

\* _deduplicate with the later note winning a tie
deduplicate_later_on_tie(ns) ==
    IF Len(ns) <= 1 THEN ns
    ELSE LET sorted_notes == SortByPitchStart(ns)
         IN  DedupScan_later_on_tie(Tail(sorted_notes), <<Head(sorted_notes)>>)

\* _deduplicate
deduplicate(ns) ==
    IF Len(ns) <= 1 THEN ns
    ELSE LET sorted_notes == SortByPitchStart(ns)
         IN  DedupScan(Tail(sorted_notes), <<Head(sorted_notes)>>)

\* the merged note with the end of prev kept: end_time is not extended
MergedNote_end_kept(prev, note) ==
    [start_time |-> prev.start_time,
     end_time   |-> prev.end_time,
     midi_pitch |-> prev.midi_pitch,
     velocity   |-> Max2(prev.velocity, note.velocity)]

\* the note a merge puts in merged[-1]
MergedNote(prev, note) ==
    [start_time |-> prev.start_time,
     end_time   |-> Max2(prev.end_time, note.end_time),
     midi_pitch |-> prev.midi_pitch,
     velocity   |-> Max2(prev.velocity, note.velocity)]

\* the scan of _merge_close_notes with prev read once, when a note is appended,
\* and not again after a merge: the gap is taken from the end of the note
\* that opened merged[-1]
RECURSIVE MergeScan_stale_prev(_, _, _, _)
MergeScan_stale_prev(rest, prev_end, merged_so_far, tolerance_ms) ==
    IF rest = <<>> THEN merged_so_far
    ELSE LET note == Head(rest)
             prev == merged_so_far[Len(merged_so_far)]
         IN  IF /\ note.midi_pitch = prev.midi_pitch
                /\ (note.start_time - prev_end) <= tolerance_ms
             THEN MergeScan_stale_prev(Tail(rest), prev_end,
                      [merged_so_far EXCEPT ![Len(merged_so_far)] = MergedNote(prev, note)],
                      tolerance_ms)
             ELSE MergeScan_stale_prev(Tail(rest), note.end_time,
                      Append(merged_so_far, note), tolerance_ms)

\* the scan of _merge_close_notes: rest is what is left of sorted_notes[1:];
\* tolerance_s = tolerance_ms / 1000.0 is compared with a difference of seconds
RECURSIVE MergeScan(_, _, _)
MergeScan(rest, merged_so_far, tolerance_ms) ==
    IF rest = <<>> THEN merged_so_far
    ELSE LET note == Head(rest)
             prev == merged_so_far[Len(merged_so_far)]
         IN  IF /\ note.midi_pitch = prev.midi_pitch
                /\ (note.start_time - prev.end_time) <= tolerance_ms
             THEN MergeScan(Tail(rest),
                      [merged_so_far EXCEPT ![Len(merged_so_far)] = MergedNote(prev, note)],
                      tolerance_ms)
             ELSE MergeScan(Tail(rest), Append(merged_so_far, note), tolerance_ms)

\* _merge_close_notes with the stale prev
merge_close_notes_stale_prev(ns, tolerance_ms) ==
    IF Len(ns) <= 1 \/ tolerance_ms <= 0 THEN ns
    ELSE LET sorted_notes == SortByPitchStart(ns)
         IN  MergeScan_stale_prev(Tail(sorted_notes), Head(sorted_notes).end_time,
                                  <<Head(sorted_notes)>>, tolerance_ms)

\* _merge_close_notes
merge_close_notes(ns, tolerance_ms) ==
    IF Len(ns) <= 1 \/ tolerance_ms <= 0 THEN ns
    ELSE LET sorted_notes == SortByPitchStart(ns)
         IN  MergeScan(Tail(sorted_notes), <<Head(sorted_notes)>>, tolerance_ms)

\* detect, lines 79-106, as one function of the notes predict() returned
filter_notes(events, min_vel, tolerance_ms) ==
    SortByStartPitch(merge_close_notes(deduplicate(RangeVelocityFilter(events, min_vel)),
                                       tolerance_ms))

(***************************************************************************)
(* The inputs of the filter                                                *)
(***************************************************************************)
MaxEvents == 3

\* <<start, end, pitch, velocity>>.  Pitch 60: A (0-20) and B (0-52) start
\* together, C (10-30) starts inside both and is as long as A, C' (10-45) starts
\* inside A and is longer, D (25-35) starts 5 ms after A ends, E (52-70)
\* starts where B ends, 17 ms after D ends and 32 ms after A ends, F (90-100)
\* starts 20 ms after E ends and 38 ms after B ends.  Pitch 62: G and H, 5 ms
\* apart.  No gap is exactly a tolerance of the model: there the float
\* difference of two times in seconds falls on either side of the tolerance.
RangeEvents ==
    {[start_time |-> e[1], end_time |-> e[2], midi_pitch |-> e[3], velocity |-> e[4]] :
        e \in {<<0, 20, 60, 50>>, <<0, 52, 60, 90>>, <<10, 30, 60, 70>>,
               <<10, 45, 60, 65>>, <<25, 35, 60, 60>>, <<52, 70, 60, 45>>,
               <<90, 100, 60, 80>>, <<0, 20, 62, 50>>, <<25, 35, 62, 95>>}}

\* what predict() can return besides: a velocity over 1.0, a pitch under and
\* a pitch over the guitar range, a velocity under every _min_vel of the model
RawEvents ==
    {[start_time |-> e[1], end_time |-> e[2], midi_pitch |-> e[3], velocity |-> e[4]] :
        e \in {<<0, 20, 60, 50>>, <<0, 52, 60, 90>>, <<10, 30, 60, 70>>,
               <<10, 45, 60, 65>>, <<25, 35, 60, 60>>, <<52, 70, 60, 45>>,
               <<25, 35, 62, 130>>,
               <<0, 20, 39, 80>>, <<0, 20, 89, 80>>, <<20, 40, 60, 30>>}}

\* merge_tolerance_ms: none, less than the default, the default
Tolerances == {0, 10, 30}

\* <<minimum_velocity, merge_tolerance_ms>>: the defaults and two overrides
DetectionParams == {<<40, 30>>, <<40, 10>>, <<55, 0>>}

\* detect called with the notes predict() returned
InitFilter ==
    /\ pc = "filter"
    /\ note_events \in SeqsUpTo(RawEvents, MaxEvents)
    /\ \E dp_ \in DetectionParams : min_velocity = dp_[1] /\ merge_tolerance_ms = dp_[2]
    /\ in_range = <<>> /\ kept = <<>> /\ merged = <<>> /\ detected = <<>>
    /\ notes = <<>> /\ target_fret = <<>>
    /\ chords = <<>> /\ all_assignments = <<>> /\ dp = <<>> /\ back = <<>>
    /\ DefaultSolver
    /\ path = <<>> /\ result = <<>>
    /\ IdleEmitters
    /\ IdleService

\* _deduplicate called on a list of its own
InitDedup ==
    /\ pc = "dedup"
    /\ in_range \in SeqsUpTo(RangeEvents, MaxEvents)
    /\ note_events = <<>> /\ min_velocity = 40 /\ merge_tolerance_ms = 30
    /\ kept = <<>> /\ merged = <<>> /\ detected = <<>>
    /\ notes = <<>> /\ target_fret = <<>>
    /\ chords = <<>> /\ all_assignments = <<>> /\ dp = <<>> /\ back = <<>>
    /\ DefaultSolver
    /\ path = <<>> /\ result = <<>>
    /\ IdleEmitters
    /\ IdleService

\* _merge_close_notes called on a list of its own
InitMerge ==
    /\ pc = "merge"
    /\ kept \in SeqsUpTo(RangeEvents, MaxEvents)
    /\ merge_tolerance_ms \in Tolerances
    /\ note_events = <<>> /\ min_velocity = 40
    /\ in_range = <<>> /\ merged = <<>> /\ detected = <<>>
    /\ notes = <<>> /\ target_fret = <<>>
    /\ chords = <<>> /\ all_assignments = <<>> /\ dp = <<>> /\ back = <<>>
    /\ DefaultSolver
    /\ path = <<>> /\ result = <<>>
    /\ IdleEmitters
    /\ IdleService

(***************************************************************************)
(* detect, step by step                                                    *)
(***************************************************************************)
solver_vars ==
    <<notes, target_fret, chords, all_assignments, dp, back, path, result, config_vars>>

\* lines 79-98
RangeVelocity ==
    /\ pc = "filter"
    /\ in_range' = RangeVelocityFilter(note_events, min_velocity)
    /\ pc' = "dedup"
    /\ UNCHANGED <<note_events, min_velocity, merge_tolerance_ms, kept, merged, detected,
                   solver_vars, emitter_vars, service_vars>>

\* line 101
Deduplicate ==
    /\ pc = "dedup"
    /\ kept' = deduplicate(in_range)
    /\ pc' = "merge"
    /\ UNCHANGED <<note_events, min_velocity, merge_tolerance_ms, in_range, merged, detected,
                   solver_vars, emitter_vars, service_vars>>

\* line 104
MergeCloseNotes ==
    /\ pc = "merge"
    /\ merged' = merge_close_notes(kept, merge_tolerance_ms)
    /\ pc' = "sort"
    /\ UNCHANGED <<note_events, min_velocity, merge_tolerance_ms, in_range, kept, detected,
                   solver_vars, emitter_vars, service_vars>>

\* line 106 and the return
SortNotes ==
    /\ pc = "sort"
    /\ detected' = SortByStartPitch(merged)
    /\ pc' = "filtered"
    /\ UNCHANGED <<note_events, min_velocity, merge_tolerance_ms, in_range, kept, merged,
                   solver_vars, emitter_vars, service_vars>>

NextFilter == RangeVelocity \/ Deduplicate \/ MergeCloseNotes \/ SortNotes

SpecFilter == InitFilter /\ [][NextFilter]_vars

SpecDedup == InitDedup /\ [][Deduplicate]_vars

SpecMerge == InitMerge /\ [][MergeCloseNotes]_vars

(***************************************************************************)
(* alphatex_builder.py: AlphaTexBuilder.  tex holds the markup after its    *)
(* header, one token for every beat.                                        *)
(***************************************************************************)
\* DURATION_THRESHOLDS: <<threshold, value>>, the threshold (seconds in the
\* code) held in half milliseconds
DURATION_THRESHOLDS ==
    <<<<3000, 1>>, <<1500, 2>>, <<750, 4>>, <<375, 8>>, <<180, 16>>, <<0, 32>>>>

\* _quantize_duration: avg_dur >= threshold is sum >= threshold * len; the
\* first threshold reached gives the value, none gives 32
quantize_duration(ns) ==
    LET total == SumSeq([i \in 1..Len(ns) |-> ns[i].end_time - ns[i].start_time])
        reached == {k \in 1..Len(DURATION_THRESHOLDS) :
                       2 * total >= DURATION_THRESHOLDS[k][1] * Len(ns)}
    IN  IF reached = {} THEN 32
        ELSE DURATION_THRESHOLDS[CHOOSE k \in reached : \A l \in reached : k <= l][2]

\* sorted(tab_notes, key=lambda n: (n.start_time, n.string))
SortByStartString(tab_notes) ==
    LET by_string == StableSort(tab_notes,
                                [i \in 1..Len(tab_notes) |-> tab_notes[i].string])
    IN  StableSort(by_string, [i \in 1..Len(by_string) |-> by_string[i].start_time])

\* the loop of _group_into_beats with the window taken from the note before
\* instead of current[0]
RECURSIVE BeatScan_from_previous(_, _, _)
BeatScan_from_previous(rest, current, groups) ==
    IF rest = <<>>
    THEN Append(groups, [notes |-> current, duration |-> quantize_duration(current)])
    ELSE LET note == Head(rest)
         IN  IF note.start_time - current[Len(current)].start_time <= chord_window
             THEN BeatScan_from_previous(Tail(rest), Append(current, note), groups)
             ELSE BeatScan_from_previous(Tail(rest), <<note>>,
                           Append(groups, [notes |-> current,
                                           duration |-> quantize_duration(current)]))

\* the loop of AlphaTexBuilder._group_into_beats: rest is what is left of
\* sorted_notes[1:]; window = settings.chord_window_ms / 1000.0
RECURSIVE BeatScan(_, _, _)
BeatScan(rest, current, groups) ==
    IF rest = <<>>
    THEN Append(groups, [notes |-> current, duration |-> quantize_duration(current)])
    ELSE LET note == Head(rest)
         IN  IF note.start_time - current[1].start_time <= chord_window
             THEN BeatScan(Tail(rest), Append(current, note), groups)
             ELSE BeatScan(Tail(rest), <<note>>,
                           Append(groups, [notes |-> current,
                                           duration |-> quantize_duration(current)]))

\* AlphaTexBuilder._group_into_beats
tex_group_into_beats(tab_notes) ==
    LET sorted_notes == SortByStartString(tab_notes)
    IN  BeatScan(Tail(sorted_notes), <<Head(sorted_notes)>>, <<>>)

\* the text of one beat: "f.s.d" for one note, "(f.s f.s ...).d" for a chord
BeatToken(beat) ==
    [chord     |-> Len(beat.notes) # 1,
     positions |-> List([k \in 1..Len(beat.notes) |->
                           <<beat.notes[k].fret, beat.notes[k].string>>]),
     duration  |-> beat.duration]

\* the beats build() reads: none for the empty list, which returns at once
TexBeats(tab_notes) ==
    IF tab_notes = <<>> THEN <<>> ELSE tex_group_into_beats(tab_notes)

\* AlphaTexBuilder.build: the empty list gives the whole-note rest "1 r"
TexBuild(tab_notes) ==
    IF tab_notes = <<>>
    THEN <<[chord |-> FALSE, positions |-> <<>>, duration |-> 1]>>
    ELSE LET beats == TexBeats(tab_notes)
         IN  List([b \in 1..Len(beats) |-> BeatToken(beats[b])])

(***************************************************************************)
(* guitarpro_builder.py: GuitarProBuilder.  gp5 holds the document tree:    *)
(* the number of measures and the beats in the order they are placed.       *)
(***************************************************************************)
tempo_bpm == 120
ticks_per_beat == 960

\* _group_into_beats: tolerance = 30  # ticks
beat_tolerance_ticks == 30

\* build: duration_ticks = max(end_tick - start_tick, 60)
min_duration_ticks == 60

\* one velocity step of the GP5 note: velocity * 127
velocity_scale == 127

\* DURATION_MAP: <<ticks, value>>
DURATION_MAP ==
    <<<<960 * 4, 1>>, <<960 * 2, 2>>, <<960, 4>>, <<480, 8>>, <<240, 16>>,
      <<120, 32>>, <<60, 64>>>>

\* the times under 18 s, in whole milliseconds, at which the float product
\* seconds * 1920.0 falls just under the whole number of ticks it stands for
FloatShortMs ==
    {1025, 2050, 4100, 4225, 8075, 8200, 8325, 8450, 16025, 16150, 16275, 16400,
     16525, 16650, 16775, 16900, 17025}

\* int(seconds * self.ticks_per_second), ticks_per_second = tempo * ticks_per_beat / 60.0,
\* for a time of 0 <= ms < 18000 milliseconds: int() cuts the fraction of the
\* float product
ToTick(ms) ==
    ((ms * tempo_bpm * ticks_per_beat) \div 60000) - (IF ms \in FloatShortMs THEN 1 ELSE 0)

\* the loop of _quantize_duration_value from the k-th entry of DURATION_MAP on;
\* best_diff is <<>> for float("inf")
RECURSIVE QuantizeScan(_, _, _, _)
QuantizeScan(ticks, k, best_diff, best_value) ==
    IF k > Len(DURATION_MAP) THEN best_value
    ELSE LET diff == Abs(ticks - DURATION_MAP[k][1])
         IN  IF best_diff = <<>> \/ diff < best_diff[1]
             THEN QuantizeScan(ticks, k + 1, <<diff>>, DURATION_MAP[k][2])
             ELSE QuantizeScan(ticks, k + 1, best_diff, best_value)

\* _quantize_duration_value
quantize_duration_value(ticks) == QuantizeScan(ticks, 1, <<>>, 64)

\* build, lines 58-63: (start_tick, duration_ticks, note)
TickNotes(tab_notes) ==
    List([i \in 1..Len(tab_notes) |->
            LET start_tick == ToTick(tab_notes[i].start_time)
                end_tick   == ToTick(tab_notes[i].end_time)
            IN  <<start_tick, Max2(end_tick - start_tick, min_duration_ticks),
                  tab_notes[i]>>])

\* the loop of GuitarProBuilder._group_into_beats: rest is what is left of
\* sorted_notes[1:]
RECURSIVE TickGroupScan(_, _, _, _)
TickGroupScan(rest, current_start, current_group, groups) ==
    IF rest = <<>> THEN Append(groups, <<current_start, current_group>>)
    ELSE LET tn == Head(rest)
         IN  IF Abs(tn[1] - current_start) <= beat_tolerance_ticks
             THEN TickGroupScan(Tail(rest), current_start, Append(current_group, tn), groups)
             ELSE TickGroupScan(Tail(rest), tn[1], <<tn>>,
                                Append(groups, <<current_start, current_group>>))

\* GuitarProBuilder._group_into_beats
gp_group_into_beats(tick_notes) ==
    IF tick_notes = <<>> THEN <<>>
    ELSE LET sorted_notes ==
                 StableSort(tick_notes, [i \in 1..Len(tick_notes) |-> tick_notes[i][1]])
         IN  TickGroupScan(Tail(sorted_notes), sorted_notes[1][1], <<sorted_notes[1]>>, <<>>)

\* math.floor in place of math.ceil
CeilDiv_floor(a, b) == a \div b

\* math.ceil(a / b) for a >= 0, b > 0
CeilDiv(a, b) == (a + b - 1) \div b

\* lines 91-96: the note written for a tab note; int() cuts the fraction of
\* velocity * 127 (velocity in percent, >= 0)
GPNote(tab_note) ==
    [string   |-> tab_note.string,
     value    |-> tab_note.fret,
     velocity |-> (tab_note.velocity * velocity_scale) \div 100]

\* GuitarProBuilder.build, up to the serialisation of the song
GPBuild(tab_notes) ==
    IF tab_notes = <<>> THEN [num_measures |-> 1, beats |-> <<>>]
    ELSE LET tick_notes == TickNotes(tab_notes)
             beats_data == gp_group_into_beats(tick_notes)
             ticks_per_measure == ticks_per_beat * 4
             total_ticks ==
                 MaxSeq([i \in 1..Len(tick_notes) |-> tick_notes[i][1] + tick_notes[i][2]])
             num_measures == Max2(1, CeilDiv(total_ticks, ticks_per_measure))
         IN  [num_measures |-> num_measures,
              beats |-> List([b \in 1..Len(beats_data) |->
                  LET beat_start == beats_data[b][1]
                      beat_notes == beats_data[b][2]
                      at == beat_start \div ticks_per_measure
                  IN  [start    |-> beat_start,
                       measure  |-> IF at < num_measures - 1 THEN at ELSE num_measures - 1,
                       ticks    |-> beat_notes[1][2],
                       duration |-> quantize_duration_value(beat_notes[1][2]),
                       notes    |-> List([k \in 1..Len(beat_notes) |->
                                            GPNote(beat_notes[k][3])])]])]

(***************************************************************************)
(* transcribe_from_notes: solve, then the two emitters                     *)
(***************************************************************************)
\* self.tex_builder.build(tab_notes)
BuildTex ==
    /\ pc = "done"
    /\ tex_beats' = TexBeats(result)
    /\ tex' = TexBuild(result)
    /\ pc' = "tex_built"
    /\ UNCHANGED <<solver_vars, detector_vars, gp5, service_vars>>

\* self.gp_builder.build(tab_notes)
BuildGP5 ==
    /\ pc = "tex_built"
    /\ gp5' = GPBuild(result)
    /\ pc' = "gp5_built"
    /\ UNCHANGED <<solver_vars, detector_vars, tex_beats, tex, service_vars>>

NextEmit == Next \/ BuildTex \/ BuildGP5

\* transcribe_from_notes(notes, target_fret)
SpecEmit == Init /\ [][NextEmit]_vars

\* the longest note of the model is MaxDurationStep * 25 ms = 48 ticks each
MaxDurationStep == 90

TabNote(start, end, pitch, vel, string, fret) ==
    [start_time |-> start, end_time |-> end, midi_pitch |-> pitch, velocity |-> vel,
     string |-> string, fret |-> fret]

\* the longest list of LayoutInputs
MaxLayout == 2

\* notes about the bar lines: a measure of 4/4 at 120 bpm is 2000 ms (3840
\* ticks); a note starts at 0, 10 ms before a bar line, on it, or 10 ms before
\* the next, and is 10 ms (under the 60 ticks of the shortest beat) or 500 ms long
LayoutNotes ==
    {TabNote(start, start + dur, 64, 80, 1, 0) :
        start \in {0, 1990, 2000, 3990}, dur \in {10, 500}}

LayoutInputs == {l \in SeqsUpTo(LayoutNotes, MaxLayout) : l # <<>>}

\* the lists GuitarProBuilder.build is called with: one note of every length
\* from 0 to MaxDurationStep * 25 ms; one note of every velocity from 0 to
\* 1.5; two notes 10 ms (19 ticks) apart, of two lengths, in either order;
\* the notes about the bar lines, in every order
GPInputs ==
    {<<TabNote(0, 25 * d, 64, 80, 1, 0)>> : d \in 0..MaxDurationStep}
    \cup {<<TabNote(0, 500, 64, v, 1, 0)>> : v \in 0..150}
    \cup {<<TabNote(s1, s1 + 375, 64, 50, 1, 0), TabNote(s2, s2 + 1000, 59, 90, 2, 0)>> :
             s1 \in {0, 10}, s2 \in {0, 10}}
    \cup LayoutInputs

\* GuitarProBuilder.build called on a list of its own
InitGP5 ==
    /\ pc = "tex_built"
    /\ result \in GPInputs
    /\ notes = <<>> /\ target_fret = <<>>
    /\ chords = <<>> /\ all_assignments = <<>> /\ dp = <<>> /\ back = <<>>
    /\ DefaultSolver
    /\ path = <<>>
    /\ IdleDetector
    /\ IdleEmitters
    /\ IdleService

SpecGP5 == InitGP5 /\ [][BuildGP5]_vars

(***************************************************************************)
(* transcription.py and audio_processor.py: TranscriptionService.transcribe *)
(* upload is the request: whether the extension of file.filename is one of  *)
(* SUPPORTED_EXTENSIONS and how len(content) stands to MAX_SIZE.            *)
(* temp_file is the file of tempfile.NamedTemporaryFile(delete=False):      *)
(* "none" before it is made, "exists", "deleted".  What predict() detects   *)
(* in the audio is an input.                                                *)
(***************************************************************************)
MaxDetected == 2

\* the notes predict() may find in an upload: two pitches 20 ms apart, a
\* second note of the first pitch inside the first, a note too quiet to keep
DetectedEvents ==
    {[start_time |-> e[1], end_time |-> e[2], midi_pitch |-> e[3], velocity |-> e[4]] :
        e \in {<<0, 500, 64, 80>>, <<20, 400, 69, 90>>, <<100, 300, 64, 70>>,
               <<600, 900, 40, 30>>}}

\* transcribe(file, target_fret) called; detection_params is None
InitService ==
    /\ pc = "request"
    /\ upload \in [extension : {"supported", "unsupported"},
                   size : {"empty", "within", "over"}]
    /\ target_fret \in Targets
    /\ temp_file = "none"
    /\ response = "none"
    /\ notes = <<>>
    /\ chords = <<>> /\ all_assignments = <<>> /\ dp = <<>> /\ back = <<>>
    /\ DefaultSolver
    /\ path = <<>> /\ result = <<>>
    /\ IdleDetector
    /\ IdleEmitters

\* line 36, AudioProcessor.save_upload: the three HTTPException(400) leave
\* before the file is made; the file is made, then written and closed, and a
\* write or close that raises OSError leaves save_upload, and transcribe,
\* with the file on disk; line 37 reads the size of the file
SaveUpload ==
    /\ pc = "request"
    /\ \/ /\ (upload.extension = "unsupported" \/ upload.size # "within")
          /\ response' = "400"
          /\ temp_file' = temp_file
          /\ pc' = "transcribe_raised"
       \/ /\ upload.extension = "supported" /\ upload.size = "within"
          /\ temp_file' = "exists"
          /\ response' = response
          /\ pc' = "saved"
       \/ /\ upload.extension = "supported" /\ upload.size = "within"
          /\ temp_file' = "exists"
          /\ response' = "raised"
          /\ pc' = "transcribe_raised"
    /\ UNCHANGED <<upload, solver_vars, detector_vars, emitter_vars>>

\* line 44, PitchDetector.detect up to line 77: predict() returns its notes
Predict ==
    /\ pc = "saved"
    /\ note_events' \in SeqsUpTo(DetectedEvents, MaxDetected)
    /\ pc' = "filter"
    /\ UNCHANGED <<min_velocity, merge_tolerance_ms, in_range, kept, merged, detected,
                   solver_vars, emitter_vars, service_vars>>

\* line 44: predict() raises, the exception leaves the try block
PredictRaises ==
    /\ pc = "saved"
    /\ pc' = "finally_raise"
    /\ UNCHANGED <<solver_vars, detector_vars, emitter_vars, service_vars>>

\* lines 54-70: no note gives the empty tab of the two emitters; otherwise
\* solve is called on the notes detected (self.tab_solver or
\* TabSolver(target_fret=target_fret))
CheckNotes ==
    /\ pc = "filtered"
    /\ IF detected = <<>>
       THEN /\ tex' = TexBuild(<<>>)
            /\ gp5' = GPBuild(<<>>)
            /\ notes' = notes
            /\ pc' = "finally_return"
       ELSE /\ notes' = detected
            /\ UNCHANGED <<tex, gp5>>
            /\ pc' = "start"
    /\ UNCHANGED <<target_fret, chords, all_assignments, dp, back, path, result,
                   config_vars, detector_vars, tex_beats, service_vars>>

\* line 84: guitarpro.write raises inside gp_builder.build
SerializeRaises ==
    /\ pc = "tex_built"
    /\ pc' = "finally_raise"
    /\ UNCHANGED <<solver_vars, detector_vars, emitter_vars, service_vars>>

\* where transcribe goes after the finally block: the return of line 56 or
\* 93, or the exception in flight (solve's included)
AfterFinally ==
    IF pc \in {"finally_return", "gp5_built"} THEN "transcribe_returned"
    ELSE "transcribe_raised"

AfterFinallyResponse ==
    IF pc \in {"finally_return", "gp5_built"} THEN "returned" ELSE "raised"

InFinally == pc \in {"finally_return", "gp5_built", "finally_raise", "raised"}

\* lines 100-103: os.unlink(audio_path) removes the file
FinallyUnlink ==
    /\ InFinally
    /\ temp_file' = "deleted"
    /\ response' = AfterFinallyResponse
    /\ pc' = AfterFinally
    /\ UNCHANGED <<upload, solver_vars, detector_vars, emitter_vars>>

\* lines 104-105: os.unlink raises OSError with the file still there; the
\* error is passed over
FinallyUnlinkFails ==
    /\ InFinally
    /\ temp_file' = temp_file
    /\ response' = AfterFinallyResponse
    /\ pc' = AfterFinally
    /\ UNCHANGED <<upload, solver_vars, detector_vars, emitter_vars>>

NextService ==
    \/ SaveUpload \/ Predict \/ PredictRaises
    \/ NextFilter \/ CheckNotes
    \/ Next
    \/ BuildTex \/ BuildGP5 \/ SerializeRaises
    \/ FinallyUnlink \/ FinallyUnlinkFails

SpecService == InitService /\ [][NextService]_vars

(***************************************************************************)
(* Properties of solve                                                     *)
(***************************************************************************)
Returned == pc = "done"

\* the assignment solve expands for chord i
Chosen(i) == PyAt(all_assignments[i], path[i])

\* chord i got its assignment from the fallback path
FellBack(i) == generate_assignments(target_fret, chords[i]) = <<>>

\* the chord groups of the output: notes of equal onset are always in one
\* group, so grouping the output by onset gives the groups solve formed
OutputGroups == group_chords(result)

StartTimes(chord) == {chord.notes[k].start_time : k \in 1..Len(chord.notes)}

\* the NoteEvent fields of a TabNote
EventOf(n) ==
    [start_time |-> n.start_time, end_time |-> n.end_time,
     midi_pitch |-> n.midi_pitch, velocity |-> n.velocity]

Count(e, events) == Cardinality({k \in 1..Len(events) : events[k] = e})

\* C1: every TabNote solve returns has 1 <= string <= 6 and 0 <= fret <= 24,
\* the notes placed by the fallback path included.
C1_Range ==
    Returned =>
        \A k \in 1..Len(result) :
            /\ 1 <= result[k].string /\ result[k].string <= NUM_STRINGS
            /\ 0 <= result[k].fret /\ result[k].fret <= MAX_FRET

\* C2: the TabNotes output for a chord group of at most 6 notes are on
\* pairwise distinct strings.
C2_DistinctStrings ==
    (Returned /\ result # <<>>) =>
        \A g \in 1..Len(OutputGroups) :
            LET tab == OutputGroups[g].notes
            IN  Len(tab) <= NUM_STRINGS =>
                    \A a, b \in 1..Len(tab) : a # b => tab[a].string # tab[b].string

\* C3: every TabNote output for a chord whose assignment came from enumeration
\* satisfies open_pitch(string) + fret = midi_pitch.
C3_PitchConsistency ==
    Returned =>
        \A k \in 1..Len(result) : \A i \in 1..Len(chords) :
            (result[k].start_time \in StartTimes(chords[i]) /\ ~FellBack(i)) =>
                /\ result[k].string \in 1..NUM_STRINGS
                /\ STANDARD_TUNING[result[k].string] + result[k].fret
                       = result[k].midi_pitch

\* a returned solve with an enumerated chord of two or more notes next to a
\* chord that fell back
C3_Witness ==
    /\ Returned
    /\ \E i, j \in 1..Len(chords) :
           /\ ~FellBack(i) /\ Len(chords[i].notes) >= 2
           /\ Len(all_assignments[i]) >= 2
           /\ FellBack(j)

\* C4: the output has as many TabNotes as the input has NoteEvents, and every
\* (start_time, end_time, midi_pitch, velocity) occurs as often in the output
\* as in the input.
C4_Bijection ==
    Returned =>
        LET out == List([k \in 1..Len(result) |-> EventOf(result[k])])
        IN  /\ Len(result) = Len(notes)
            /\ \A k \in 1..Len(notes) : Count(notes[k], out) = Count(notes[k], notes)
            /\ \A k \in 1..Len(out) : Count(out[k], notes) = Count(out[k], out)

\* a returned solve of an input with a repeated note event, a chord of notes
\* of different onsets and a chord that fell back
C4_Witness ==
    /\ Returned
    /\ \E a, b \in 1..Len(notes) : a # b /\ notes[a] = notes[b]
    /\ \E i \in 1..Len(chords) : Cardinality(StartTimes(chords[i])) >= 2
    /\ \E i \in 1..Len(chords) : FellBack(i)

\* the cost of a sequence of assignments, one per chord: internal + zone of each
\* and the transition between neighbours
RECURSIVE SequenceCost(_, _)
SequenceCost(target, seq) ==
    IF seq = <<>> THEN 0
    ELSE LET n == Len(seq)
         IN  SequenceCost(target, SubSeq(seq, 1, n - 1))
                 + internal_cost(seq[n]) + zone_cost(target, seq[n])
                 + (IF n > 1 THEN transition_cost(seq[n - 1], seq[n]) ELSE 0)

\* every way to pick one assignment from each of the first i lists
RECURSIVE Lattice(_, _)
Lattice(assigns, i) ==
    IF i = 0 THEN {<<>>}
    ELSE {Append(seq, assigns[i][j]) :
              seq \in Lattice(assigns, i - 1), j \in 1..Len(assigns[i])}

ChosenSequence == List([i \in 1..Len(chords) |-> Chosen(i)])

\* C5: the assignments solve chooses have the least total cost among all the
\* sequences that pick one assignment from each chord's list, and that cost is
\* the one the table holds for the last chord.
C5_MinimumCost ==
    (Returned /\ notes # <<>>) =>
        LET cost == SequenceCost(target_fret, ChosenSequence)
        IN  /\ \A seq \in Lattice(all_assignments, Len(chords)) :
                   cost <= SequenceCost(target_fret, seq)
            /\ PyAt(dp[Len(chords)], path[Len(chords)]) = <<cost>>

\* a returned solve of two or more chords, each with a choice, where the
\* assignment of least cost of its own is not chosen for some chord
C5_Witness ==
    /\ Returned
    /\ Len(chords) >= 2
    /\ \A i \in 1..Len(chords) : Len(all_assignments[i]) >= 2
    /\ \E i \in 1..Len(chords) : \E j \in 1..Len(all_assignments[i]) :
           internal_cost(all_assignments[i][j]) + zone_cost(target_fret, all_assignments[i][j])
               < internal_cost(Chosen(i)) + zone_cost(target_fret, Chosen(i))

\* C6: solve never raises; the empty input returns the empty list; a chord for
\* which enumeration accepts no tuple gets the fallback assignment alone, and
\* that assignment is the one expanded into the output.
C6_NeverFails ==
    /\ pc # "raised"
    /\ (Returned /\ notes = <<>>) => result = <<>>
    /\ (pc \in {"viterbi", "backtrack", "build", "done"} /\ notes # <<>>) =>
           \A i \in 1..Len(chords) :
               FellBack(i) =>
                   all_assignments[i] = <<fallback_assignment(target_fret, chords[i])>>
    /\ (Returned /\ notes # <<>>) =>
           /\ Len(path) = Len(chords)
           /\ \A i \in 1..Len(chords) :
                  FellBack(i) =>
                      /\ path[i] = 0
                      /\ \A k \in 1..Len(chords[i].notes) :
                             \E r \in 1..Len(result) :
                                 /\ EventOf(result[r]) = chords[i].notes[k]
                                 /\ <<result[r].string, result[r].fret>> = Chosen(i)[k]

\* a returned solve where a chord with a pitch that has no candidate fell back
\* and another chord, all of whose tuples were rejected, fell back too
C6_Witness ==
    /\ Returned
    /\ \E i, j \in 1..Len(chords) :
           /\ FellBack(i)
           /\ \E k \in 1..Len(chords[i].notes) :
                  candidates_for_pitch(chords[i].notes[k].midi_pitch) = <<>>
           /\ FellBack(j)
           /\ \A k \in 1..Len(chords[j].notes) :
                  candidates_for_pitch(chords[j].notes[k].midi_pitch) # <<>>

\* a returned solve of a chord of more than NUM_STRINGS notes
C6_WitnessBigChord ==
    /\ Returned
    /\ \E i \in 1..Len(chords) : FellBack(i) /\ Len(chords[i].notes) > NUM_STRINGS

\* C7: three single notes p, q, p of the guitar range, more than chord_window
\* apart, default weights, no target fret: the first and the third TabNote
\* have the same (string, fret).
C7_PositionStickiness ==
    (Returned /\ Len(result) = 3 /\ Len(chords) = 3 /\ target_fret = <<>>
        /\ result[1].midi_pitch = result[3].midi_pitch
        /\ \A k \in 1..3 : result[k].midi_pitch \in GUITAR_MIN_MIDI..GUITAR_MAX_MIDI) =>
            /\ result[1].string = result[3].string
            /\ result[1].fret = result[3].fret

\* D4, E4, D4 solved: the middle note pulls both D4 off their lowest fret
C7_Witness ==
    /\ Returned
    /\ Len(result) = 3 /\ Len(chords) = 3
    /\ result[1].midi_pitch = result[3].midi_pitch
    /\ result[1].midi_pitch # result[2].midi_pitch
    /\ Len(all_assignments[1]) >= 2
    /\ result[1].fret # candidates_for_pitch(result[1].midi_pitch)[1][2]

\* the candidate of the lowest fret
LowestFret(midi_pitch) ==
    LET cands == candidates_for_pitch(midi_pitch)
    IN  CHOOSE sf \in {cands[k] : k \in 1..Len(cands)} :
            \A k \in 1..Len(cands) : sf[2] <= cands[k][2]

AloneInRange ==
    /\ Returned
    /\ Len(notes) = 1
    /\ notes[1].midi_pitch \in GUITAR_MIN_MIDI..GUITAR_MAX_MIDI

\* C8: a single note of the guitar range solved alone with no target fret gets
\* its candidate of the lowest fret; 40 gives (6, 0) and 64 gives (1, 0).
C8_LowestFretAlone ==
    (AloneInRange /\ target_fret = <<>>) =>
        /\ Len(result) = 1
        /\ <<result[1].string, result[1].fret>> = LowestFret(notes[1].midi_pitch)
        /\ notes[1].midi_pitch = 40 => <<result[1].string, result[1].fret>> = <<6, 0>>
        /\ notes[1].midi_pitch = 64 => <<result[1].string, result[1].fret>> = <<1, 0>>

\* a note with several candidates solved alone with no target fret
C8_Witness ==
    /\ AloneInRange /\ target_fret = <<>>
    /\ Len(all_assignments[1]) = NUM_STRINGS

\* C9: a single note solved alone with target_fret = T, whose pitch has a
\* candidate at fret T, gets that candidate; 69 with T = 5 gives (1, 5).
C9_TargetZone ==
    (Returned /\ Len(notes) = 1 /\ target_fret # <<>>) =>
        LET cands == candidates_for_pitch(notes[1].midi_pitch)
        IN  /\ \A k \in 1..Len(cands) :
                   cands[k][2] = target_fret[1] =>
                       <<result[1].string, result[1].fret>> = cands[k]
            /\ (notes[1].midi_pitch = 69 /\ target_fret = <<5>>) =>
                   <<result[1].string, result[1].fret>> = <<1, 5>>

\* a note solved alone whose candidate at the target fret is not its lowest
C9_Witness ==
    /\ Returned /\ Len(notes) = 1 /\ target_fret # <<>>
    /\ target_fret[1] > 0
    /\ result[1].fret = target_fret[1]
    /\ LowestFret(notes[1].midi_pitch)[2] < target_fret[1]

\* C10: the returned list is non-decreasing by (start_time, string).
C10_OutputOrder ==
    Returned =>
        \A k \in 1..(Len(result) - 1) :
            \/ result[k].start_time < result[k + 1].start_time
            \/ /\ result[k].start_time = result[k + 1].start_time
               /\ result[k].string <= result[k + 1].string

\* a returned solve whose chords, expanded in order, are not in output order:
\* the input has a later note first and a chord whose strings descend
C10_Witness ==
    /\ Returned
    /\ \E k \in 1..(Len(notes) - 1) : notes[k].start_time > notes[k + 1].start_time
    /\ \E i \in 1..Len(chords) : \E k \in 1..(Len(chords[i].notes) - 1) :
           /\ chords[i].notes[k].start_time = chords[i].notes[k + 1].start_time
           /\ Chosen(i)[k][1] > Chosen(i)[k + 1][1]

(***************************************************************************)
(* Properties of the note filter                                           *)
(***************************************************************************)
Filtered == pc = "filtered"

\* C11: the filter is idempotent: the filter steps, applied with the same
\* parameters to the list detect returned, return that list unchanged.
C11_FilterIdempotent ==
    Filtered => filter_notes(detected, min_velocity, merge_tolerance_ms) = detected

\* detect has returned a list from which the deduplication and the merge
\* each took a note
C11_Witness ==
    /\ Filtered
    /\ Len(kept) < Len(in_range)
    /\ Len(merged) < Len(kept)
    /\ detected # <<>>

\* the greatest end_time and velocity of s[i..j]
MaxEnd(s, i, j) == MaxSeq([k \in 1..(j - i + 1) |-> s[i + k - 1].end_time])
MaxVelocity(s, i, j) == MaxSeq([k \in 1..(j - i + 1) |-> s[i + k - 1].velocity])

\* the first index of the run of s that holds s[j], when the runs after the
\* first begin at the indices of begins
RunStart(begins, j) ==
    CHOOSE r \in begins \cup {1} : r <= j /\ \A b \in begins : b <= j => b <= r

\* the last index of the run that begins at r
RunEnd(begins, n, r) ==
    IF \E b \in begins : b > r
    THEN (CHOOSE b \in begins : b > r /\ \A c \in begins : c > r => b <= c) - 1
    ELSE n

\* out is the merge of s, sorted by (midi_pitch, start_time), at the tolerance:
\* s splits into runs of consecutive notes; a note joins the run before it
\* exactly when it has the pitch of the run and starts at most the tolerance
\* after the greatest end of the run so far; every run gives one note, from
\* the start of its first note to its greatest end, at its greatest velocity
MergedRuns(s, out, tolerance_ms) ==
    LET n == Len(s)
    IN  IF n = 0 THEN out = <<>>
        ELSE \E begins \in SUBSET (2..n) :
               /\ \A j \in 2..n :
                      LET r == RunStart(begins, j - 1)
                      IN  (j \notin begins) <=>
                             /\ s[j].midi_pitch = s[r].midi_pitch
                             /\ s[j].start_time - MaxEnd(s, r, j - 1) <= tolerance_ms
               /\ Len(out) = Cardinality(begins) + 1
               /\ \A r \in begins \cup {1} :
                      LET k == 1 + Cardinality({b \in begins : b <= r})
                          e == RunEnd(begins, n, r)
                      IN  out[k] = [start_time |-> s[r].start_time,
                                    end_time   |-> MaxEnd(s, r, e),
                                    midi_pitch |-> s[r].midi_pitch,
                                    velocity   |-> MaxVelocity(s, r, e)]

\* no two consecutive notes of out, of one pitch, are a gap of at most the
\* tolerance apart
NoCloseNeighbours(out, tolerance_ms) ==
    \A k \in 1..(Len(out) - 1) :
        out[k + 1].midi_pitch = out[k].midi_pitch =>
            out[k + 1].start_time - out[k].end_time > tolerance_ms

MergeReturned == pc = "sort"

\* C12 as stated: for every tolerance >= 0 the result of the merge step is the
\* chained merge of the notes sorted by (midi_pitch, start_time): same pitch
\* and gap <= tolerance merge into (prev.start, max end, pitch, max velocity),
\* nothing else merges, and no two consecutive same-pitch notes of the result
\* are a gap <= tolerance apart.
C12_MergeEveryTolerance ==
    (MergeReturned /\ merge_tolerance_ms >= 0) =>
        LET out == SortByPitchStart(merged)
        IN  /\ MergedRuns(SortByPitchStart(kept), out, merge_tolerance_ms)
            /\ NoCloseNeighbours(out, merge_tolerance_ms)

\* C12 amended: the same for every tolerance > 0; at a tolerance of 0 or less
\* nothing is merged and the list is returned as it was given.
C12_MergeStep ==
    MergeReturned =>
        IF merge_tolerance_ms > 0
        THEN LET out == SortByPitchStart(merged)
             IN  /\ MergedRuns(SortByPitchStart(kept), out, merge_tolerance_ms)
                 /\ NoCloseNeighbours(out, merge_tolerance_ms)
        ELSE merged = kept

\* three notes of one pitch have merged into one, the third only because the
\* second had extended the first
C12_Witness ==
    /\ MergeReturned
    /\ merge_tolerance_ms > 0
    /\ Len(kept) = 3
    /\ Len(merged) = 1
    /\ LET s == SortByPitchStart(kept)
       IN  s[3].start_time - s[1].end_time > merge_tolerance_ms

Deduplicated == pc = "merge"

Overlap(a, b) == a.start_time < b.end_time /\ b.start_time < a.end_time

\* C13: of two notes of one pitch of which the later starts before the
\* earlier ends exactly one survives, the strictly longer one, the earlier
\* one on a tie; for any list the result holds only input notes and no two
\* notes of one pitch in it overlap in time.
C13_Deduplicate ==
    Deduplicated =>
        /\ LET s == SortByPitchStart(in_range)
           IN  (/\ Len(s) = 2
                /\ s[1].midi_pitch = s[2].midi_pitch
                /\ s[2].start_time < s[1].end_time)
               => kept = <<IF Duration(s[2]) > Duration(s[1]) THEN s[2] ELSE s[1]>>
        /\ \A k \in 1..Len(kept) : \E i \in 1..Len(in_range) : kept[k] = in_range[i]
        /\ \A k, l \in 1..Len(kept) :
               (k < l /\ kept[k].midi_pitch = kept[l].midi_pitch)
                   => ~Overlap(kept[k], kept[l])

\* a later and longer note has replaced the note it overlaps, and a third
\* note of the pitch was kept beside it
C13_Witness ==
    /\ Deduplicated
    /\ Len(in_range) = 3
    /\ Len(kept) = 2
    /\ kept[1].midi_pitch = kept[2].midi_pitch
    /\ \E i \in 1..3 :
           /\ in_range[i].midi_pitch = kept[1].midi_pitch
           /\ in_range[i].start_time < kept[1].start_time
           /\ Overlap(in_range[i], kept[1])
           /\ Duration(in_range[i]) < Duration(kept[1])

(***************************************************************************)
(* Properties of the chord grouping                                        *)
(***************************************************************************)
SortedByStartPitch(ns) ==
    \A i, j \in 1..Len(ns) :
        i < j => \/ ns[i].start_time < ns[j].start_time
                 \/ /\ ns[i].start_time = ns[j].start_time
                    /\ ns[i].midi_pitch <= ns[j].midi_pitch

\* the notes of the groups, one group after the other
RECURSIVE Flatten(_)
Flatten(groups) ==
    IF groups = <<>> THEN <<>> ELSE Head(groups).notes \o Flatten(Tail(groups))

Grouped == pc # "start" /\ notes # <<>>

\* C14: the grouping of a list sorted by (start_time, midi_pitch): the groups,
\* one after the other, are the input list (every note in exactly one group,
\* in its input order), the groups are in ascending start time, every note of
\* a group starts at most chord_window after the first note of the group, and
\* the first note of a group starts more than chord_window after the first
\* note of the group before.
C14_ChordGrouping ==
    (Grouped /\ SortedByStartPitch(notes)) =>
        /\ Flatten(chords) = notes
        /\ \A i \in 1..Len(chords) :
               /\ chords[i].notes # <<>>
               /\ chords[i].start_time = chords[i].notes[1].start_time
               /\ \A k \in 1..Len(chords[i].notes) :
                      /\ chords[i].notes[k].start_time >= chords[i].start_time
                      /\ chords[i].notes[k].start_time - chords[i].start_time <= chord_window
        /\ \A i \in 1..(Len(chords) - 1) :
               chords[i + 1].start_time - chords[i].start_time > chord_window

\* a sorted list of three notes: the second starts exactly chord_window after
\* the first and joins it, the third starts within chord_window of the second
\* and opens a group
C14_Witness ==
    /\ Grouped
    /\ SortedByStartPitch(notes)
    /\ Len(notes) = 3
    /\ Len(chords) = 2
    /\ Len(chords[1].notes) = 2
    /\ notes[2].start_time - notes[1].start_time = chord_window
    /\ notes[3].start_time - notes[2].start_time <= chord_window

(***************************************************************************)
(* Properties of the emitters                                              *)
(***************************************************************************)
GP5Built == pc = "gp5_built"

\* the entries of DURATION_MAP nearest to ticks
Nearest(ticks) ==
    {k \in 1..Len(DURATION_MAP) :
        \A l \in 1..Len(DURATION_MAP) :
            Abs(ticks - DURATION_MAP[k][1]) <= Abs(ticks - DURATION_MAP[l][1])}

\* the value of the nearest entry, the higher value (the shorter note) of two
NearestShorter(ticks) ==
    LET values == {DURATION_MAP[k][2] : k \in Nearest(ticks)}
    IN  CHOOSE v \in values : \A w \in values : w <= v

\* the value of the nearest entry, the lower value (the longer note) of two
NearestLonger(ticks) ==
    LET values == {DURATION_MAP[k][2] : k \in Nearest(ticks)}
    IN  CHOOSE v \in values : \A w \in values : v <= w

\* C16: the duration value of a GP5 beat is the value of the DURATION_MAP
\* entry nearest to the duration_ticks (>= 60) of the first note of the beat,
\* and of two entries equally near the higher value, the shorter note.
C16_BeatDuration ==
    GP5Built =>
        \A b \in 1..Len(gp5.beats) :
            gp5.beats[b].ticks >= min_duration_ticks =>
                gp5.beats[b].duration = NearestShorter(gp5.beats[b].ticks)

\* round(velocity * 127) for a velocity >= 0 in percent (no velocity of the
\* model is a half that rounds to even downwards), clipped to 0..127
RoundedVelocity(velocity) ==
    LET rounded == (velocity * velocity_scale + 50) \div 100
    IN  IF rounded > velocity_scale THEN velocity_scale ELSE rounded

\* the notes of the beats of the document, one beat after the other
RECURSIVE WrittenNotes(_)
WrittenNotes(beats) ==
    IF beats = <<>> THEN <<>> ELSE Head(beats).notes \o WrittenNotes(Tail(beats))

\* C17: every note the GP5 emitter writes has string = tab_note.string,
\* value = tab_note.fret and velocity = round(tab_note.velocity * 127)
\* clipped to 0..127: the notes written are those of the tab notes, one each.
C17_NoteFields ==
    GP5Built =>
        LET written  == WrittenNotes(gp5.beats)
            expected == [i \in 1..Len(result) |->
                            [string   |-> result[i].string,
                             value    |-> result[i].fret,
                             velocity |-> RoundedVelocity(result[i].velocity)]]
        IN  /\ Len(written) = Len(result)
            /\ \A i \in 1..Len(result) :
                   Count(expected[i], written) = Count(expected[i], expected)

TexBuilt == pc \in {"tex_built", "gp5_built"}

C19_ChordStringsAscending ==
    TexBuilt =>
        \A b \in 1..Len(tex) :
            tex[b].chord =>
                \A k \in 1..(Len(tex[b].positions) - 1) :
                    tex[b].positions[k][2] <= tex[b].positions[k + 1][2]

(***************************************************************************)
(* Properties of TranscriptionService.transcribe                           *)
(***************************************************************************)
TranscribeLeft == pc \in {"transcribe_returned", "transcribe_raised"}

\* C15: once transcribe has returned or raised, on any exit path, no temporary
\* audio file made for the request is left; a rejected upload (400) never
\* makes one.
C15_TempFileRemoved ==
    /\ TranscribeLeft => temp_file # "exists"
    /\ response = "400" => temp_file = "none"

(***************************************************************************)
(* Properties of the fallback assignment                                   *)
(***************************************************************************)
CandidateSet(midi_pitch) ==
    {candidates_for_pitch(midi_pitch)[c] : c \in 1..Len(candidates_for_pitch(midi_pitch))}

\* the strings taken by the notes before the k-th note of the chord: a note
\* takes its string when it is placed on a candidate whose string was free;
\* a forced note takes none
RECURSIVE UsedBefore(_, _, _)
UsedBefore(chord, assignment, k) ==
    IF k = 1 THEN {}
    ELSE LET before == UsedBefore(chord, assignment, k - 1)
             placed == /\ assignment[k - 1] \in CandidateSet(chord.notes[k - 1].midi_pitch)
                       /\ assignment[k - 1][1] \notin before
         IN  IF placed THEN before \cup {assignment[k - 1][1]} ELSE before

\* the candidates of the k-th note on a string not yet taken
FreeCandidates(chord, assignment, k) ==
    {sf \in CandidateSet(chord.notes[k].midi_pitch) :
        sf[1] \notin UsedBefore(chord, assignment, k)}

\* C20 as stated: with or without target_fret, the fallback gives every note,
\* in chord order, its lowest-fret candidate on a string not yet taken, and
\* (string 1, fret max(0, pitch - 64)) only when there is none.
C20_FallbackLowestFret ==
    pc \in {"build", "done"} =>
        \A i \in 1..Len(chords) :
            FellBack(i) =>
                \A k \in 1..Len(chords[i].notes) :
                    LET free == FreeCandidates(chords[i], Chosen(i), k)
                        midi_pitch == chords[i].notes[k].midi_pitch
                    IN  IF free = {}
                        THEN Chosen(i)[k] = ForcedPosition(midi_pitch)
                        ELSE /\ Chosen(i)[k] \in free
                             /\ \A sf \in free : Chosen(i)[k][2] <= sf[2]

\* how far a fret is from the fret the fallback aims at: the fret itself
\* without a target fret, the distance to the target fret with one
FallbackKey(target, fret) == IF target = <<>> THEN fret ELSE Abs(fret - target[1])

\* C20 amended: without target_fret as stated; with target_fret the note gets
\* the free candidate whose fret is nearest to target_fret, the one on the
\* lower string number (the lower fret) of two equally near.
C20_Fallback ==
    pc \in {"build", "done"} =>
        \A i \in 1..Len(chords) :
            FellBack(i) =>
                \A k \in 1..Len(chords[i].notes) :
                    LET free == FreeCandidates(chords[i], Chosen(i), k)
                        midi_pitch == chords[i].notes[k].midi_pitch
                        best == Chosen(i)[k]
                    IN  IF free = {}
                        THEN best = ForcedPosition(midi_pitch)
                        ELSE /\ best \in free
                             /\ \A sf \in free :
                                    \/ FallbackKey(target_fret, best[2])
                                           < FallbackKey(target_fret, sf[2])
                                    \/ /\ FallbackKey(target_fret, best[2])
                                              = FallbackKey(target_fret, sf[2])
                                       /\ best[1] <= sf[1]

\* with a target fret, a fallback chord of two notes: the first got a
\* candidate that is not its lowest fret, equally near the target as another
\* free candidate, and the second was forced
C20_Witness ==
    /\ pc = "done"
    /\ target_fret # <<>>
    /\ Len(chords) = 1
    /\ FellBack(1)
    /\ LET free == FreeCandidates(chords[1], Chosen(1), 1)
       IN  /\ Chosen(1)[1] \in free
           /\ \E sf \in free : sf[2] < Chosen(1)[1][2]
           /\ \E sf \in free :
                  /\ sf # Chosen(1)[1]
                  /\ FallbackKey(target_fret, sf[2])
                         = FallbackKey(target_fret, Chosen(1)[1][2])
    /\ FreeCandidates(chords[1], Chosen(1), 2) = {}
    /\ Chosen(1)[2] = ForcedPosition(chords[1].notes[2].midi_pitch)

(***************************************************************************)
(* Properties of candidates_for_pitch                                      *)
(***************************************************************************)
\* the pairs (string, pitch - open pitch) whose fret is on the fretboard
PlayablePairs(midi_pitch) ==
    {<<s, midi_pitch - STANDARD_TUNING[s]>> :
        s \in {t \in 1..NUM_STRINGS :
                  /\ 0 <= midi_pitch - STANDARD_TUNING[t]
                  /\ midi_pitch - STANDARD_TUNING[t] <= MAX_FRET}}

Assigned == pc \in {"viterbi", "backtrack", "build", "done", "raised"}

\* C25: candidates_for_pitch(p) under the standard tuning is exactly the pairs
\* (string, p - open pitch) with a fret in 0..24, at most one per string; it is
\* non-empty iff 40 <= p <= 88, and (s, 0) is a candidate of the pitch of every
\* open string s.  A note alone with no target fret has these candidates, in
\* this order, as its assignments.
C25_Candidates ==
    \A n \in 1..Len(notes) :
        LET midi_pitch == notes[n].midi_pitch
            candidates == candidates_for_pitch(midi_pitch)
        IN  /\ {candidates[i] : i \in 1..Len(candidates)} = PlayablePairs(midi_pitch)
            /\ \A i, j \in 1..Len(candidates) :
                   candidates[i][1] = candidates[j][1] => i = j
            /\ (candidates # <<>>) <=>
                   (GUITAR_MIN_MIDI <= midi_pitch /\ midi_pitch <= GUITAR_MAX_MIDI)
            /\ \A s \in 1..NUM_STRINGS :
                   midi_pitch = STANDARD_TUNING[s] =>
                       \E i \in 1..Len(candidates) : candidates[i] = <<s, 0>>
            /\ (Assigned /\ Len(notes) = 1 /\ target_fret = <<>> /\ candidates # <<>>) =>
                   all_assignments[1] = List([i \in 1..Len(candidates) |-> <<candidates[i]>>])

\* the assignments of the highest pitch of the guitar, which has string 1 at
\* fret 24 alone, and of an open-string pitch with a candidate on every string
C25_Witness ==
    /\ Assigned
    /\ Len(notes) = 1
    /\ target_fret = <<>>
    /\ \/ /\ notes[1].midi_pitch = GUITAR_MAX_MIDI
          /\ all_assignments[1] = << <<<<1, MAX_FRET>>>> >>
       \/ /\ notes[1].midi_pitch = STANDARD_TUNING[1]
          /\ Len(all_assignments[1]) = NUM_STRINGS
          /\ all_assignments[1][1] = <<<<1, 0>>>>

(***************************************************************************)
(* Properties of the candidate enumeration                                 *)
(***************************************************************************)
Enumerated == pc = "enumerated"

\* the Cartesian product of the candidate lists of the pitches ps, as a set
RECURSIVE TupleSet(_)
TupleSet(ps) ==
    IF ps = <<>> THEN {<<>>}
    ELSE {<<sf>> \o t : sf \in CandidateSet(Head(ps)), t \in TupleSet(Tail(ps))}

ChordPitchesOf(chord) == List([i \in 1..Len(chord.notes) |-> chord.notes[i].midi_pitch])

\* pairwise distinct strings, and no two fretted positions further apart than span
ValidTuple(span, t) ==
    /\ \A i, j \in 1..Len(t) : t[i][1] = t[j][1] => i = j
    /\ \A i, j \in 1..Len(t) : (t[i][2] > 0 /\ t[j][2] > 0) => t[i][2] - t[j][2] <= span

ValidTuples(span, chord) == {t \in TupleSet(ChordPitchesOf(chord)) : ValidTuple(span, t)}

\* where a candidate stands in the candidate list of its pitch
CandidateIndex(sf) ==
    CHOOSE i \in 1..NUM_STRINGS :
        i <= Len(candidates_for_pitch(sf[2] + STANDARD_TUNING[sf[1]]))
        /\ candidates_for_pitch(sf[2] + STANDARD_TUNING[sf[1]])[i] = sf

\* a comes before b in the lexicographic order of the product
LexBefore(a, b) ==
    \E i \in 1..Len(a) :
        /\ \A j \in 1..(i - 1) : a[j] = b[j]
        /\ CandidateIndex(a[i]) < CandidateIndex(b[i])

Min2(a, b) == IF a < b THEN a ELSE b

EnumReturned == {all_assignments[1][j] : j \in 1..Len(all_assignments[1])}

\* C21: the enumeration of a chord returns the first min(max_combos, number of
\* valid tuples) valid tuples of the product of the candidate lists in
\* lexicographic order (in that order when no target fret sorts them after),
\* a tuple being valid iff its strings are pairwise distinct and its fretted
\* positions span at most max_fret_span; nothing when a note has no candidate.
C21_Enumeration ==
    Enumerated =>
        LET valid == ValidTuples(self_max_fret_span, chords[1])
            returned == all_assignments[1]
        IN  /\ Len(returned) = Min2(self_max_combos, Cardinality(valid))
            /\ Cardinality(EnumReturned) = Len(returned)
            /\ EnumReturned \subseteq valid
            /\ \A a \in EnumReturned : \A b \in valid \ EnumReturned : LexBefore(a, b)
            /\ target_fret = <<>> =>
                   \A i, j \in 1..Len(returned) :
                       i < j => LexBefore(returned[i], returned[j])
            /\ (\E i \in 1..Len(chords[1].notes) :
                      candidates_for_pitch(chords[1].notes[i].midi_pitch) = <<>>)
                   => returned = <<>>

\* a chord of two notes or more with more valid tuples than max_combos, whose
\* product has a rejected tuple before the last one returned
C21_Witness ==
    /\ Enumerated
    /\ target_fret = <<>>
    /\ Len(chords[1].notes) >= 2
    /\ Len(all_assignments[1]) = self_max_combos
    /\ Cardinality(ValidTuples(self_max_fret_span, chords[1])) > self_max_combos
    /\ \E t \in TupleSet(ChordPitchesOf(chords[1])) :
           /\ ~ValidTuple(self_max_fret_span, t)
           /\ LexBefore(t, all_assignments[1][Len(all_assignments[1])])

\* C22: with a target fret and more than max_combos valid assignments of the
\* chord, the max_combos assignments returned are those of the lowest zone
\* cost among all the valid assignments.
C22_LowestZoneCostKept ==
    (Enumerated /\ target_fret # <<>>
        /\ Cardinality(ValidTuples(self_max_fret_span, chords[1])) > self_max_combos) =>
        /\ Len(all_assignments[1]) = self_max_combos
        /\ \A a \in EnumReturned :
               \A b \in ValidTuples(self_max_fret_span, chords[1]) \ EnumReturned :
                   zone_cost(target_fret, a) <= zone_cost(target_fret, b)

TicksPerMeasure == ticks_per_beat * 4

\* max(start_tick + duration_ticks) over the notes of the list
TotalSpan(tab_notes) ==
    LET ends == {ToTick(tab_notes[i].start_time)
                    + Max2(ToTick(tab_notes[i].end_time) - ToTick(tab_notes[i].start_time),
                           min_duration_ticks) : i \in 1..Len(tab_notes)}
    IN  CHOOSE e \in ends : \A f \in ends : f <= e

\* C24: for a list of notes that is not empty the song has max(1, ceil(max(
\* start_tick + duration_ticks) / 3840)) measures; every beat is in the
\* measure start_tick div 3840 of the head of its group, which is one of the
\* measures of the song; the beats of a measure are in ascending start tick.
C24_MeasureLayout ==
    (GP5Built /\ result # <<>>) =>
        /\ gp5.num_measures >= 1
        /\ gp5.num_measures * TicksPerMeasure >= TotalSpan(result)
        /\ gp5.num_measures > 1 =>
               (gp5.num_measures - 1) * TicksPerMeasure < TotalSpan(result)
        /\ \A b \in 1..Len(gp5.beats) :
               /\ gp5.beats[b].measure = gp5.beats[b].start \div TicksPerMeasure
               /\ 0 <= gp5.beats[b].measure
               /\ gp5.beats[b].measure <= gp5.num_measures - 1
               /\ \E i \in 1..Len(result) : ToTick(result[i].start_time) = gp5.beats[b].start
        /\ \A b, c \in 1..Len(gp5.beats) :
               (b < c /\ gp5.beats[b].measure = gp5.beats[c].measure) =>
                   gp5.beats[b].start < gp5.beats[c].start

\* a song of two measures made from a list given out of order: one beat
\* starts on the bar line and is in the second measure, another is in the first
C24_Witness ==
    /\ GP5Built
    /\ gp5.num_measures = 2
    /\ Len(result) >= 2
    /\ result[1].start_time > result[Len(result)].start_time
    /\ \E b \in 1..Len(gp5.beats) :
           gp5.beats[b].measure = 1 /\ gp5.beats[b].start = TicksPerMeasure
    /\ \E b \in 1..Len(gp5.beats) : gp5.beats[b].measure = 0

(***************************************************************************)
(* The two emitters side by side                                           *)
(***************************************************************************)
\* the (string, fret) pairs of a beat of the markup and of a beat of the song
TexPositions(beat) ==
    List([k \in 1..Len(beat.notes) |-> <<beat.notes[k].string, beat.notes[k].fret>>])

GPPositions(beat) ==
    List([k \in 1..Len(beat.notes) |-> <<beat.notes[k].string, beat.notes[k].value>>])

\* C26: for every list solve returns, the song and the markup have the same
\* number of beats and the same notes in every beat.
C26_EmittersAgree ==
    (GP5Built /\ result # <<>>) =>
        /\ Len(gp5.beats) = Len(tex_beats)
        /\ \A b \in 1..Len(gp5.beats) :
               b <= Len(tex_beats) =>
                   /\ Len(gp5.beats[b].notes) = Len(tex_beats[b].notes)
                   /\ \A sf \in {GPPositions(gp5.beats[b])[k] :
                                     k \in 1..Len(gp5.beats[b].notes)} :
                          Count(sf, GPPositions(gp5.beats[b]))
                              = Count(sf, TexPositions(tex_beats[b]))

(***************************************************************************)
(* solve and the order of its input                                        *)
(***************************************************************************)
\* the orders a list of n notes can be given in
Orders(n) == {f \in [1..n -> 1..n] : \A i, j \in 1..n : f[i] = f[j] => i = j}

Reordered(ns, f) == List([i \in 1..Len(ns) |-> ns[f[i]]])

\* C27: solve gives every note event the same (string, fret) whatever the
\* order of the list it is called with.
C27_OrderIndependent ==
    (Returned /\ notes # <<>>) =>
        \A f \in Orders(Len(notes)) :
            \A k \in 1..Len(result) :
                Count(result[k], result)
                    = Count(result[k], solve(target_fret, Reordered(notes, f)))

====
